---- MODULE Spec2Model ----
(***************************************************************************)
(* Model of generate_image (src/app.py, lines 9-88): one call of the       *)
(* function, from the blank-prompt guard through the remote predict call   *)
(* and the shape probes over its result, to the returned value.            *)
(*                                                                         *)
(* The remote service, the filesystem and the network are the environment: *)
(* the result of predict and the outcome of every os.path.exists,          *)
(* Image.open and requests.get are inputs.  Every I/O call the code makes  *)
(* is appended to the variable io together with what it observed.          *)
(***************************************************************************)
EXTENDS Integers, Sequences, FiniteSets, TLC

\* ------------------------------------------------------------------ bounds
MaxPromptLen == 2      \* longest prompt drawn
MaxLen == 2            \* longest list result drawn

\* ------------------------------------------------------------- the prompt
Whitespace == {"sp", "nl"}
Chars == Whitespace \cup {"x"}

RECURSIVE SeqsUpTo(_, _)
SeqsUpTo(S, n) ==
    IF n = 0 THEN {<<>>}
    ELSE LET shorter == SeqsUpTo(S, n - 1)
         IN  shorter \cup {Append(s, x) : s \in shorter, x \in S}

Prompts == SeqsUpTo(Chars, MaxPromptLen)

RECURSIVE LStrip(_)
LStrip(s) ==
    IF s = <<>> THEN s
    ELSE IF Head(s) \in Whitespace THEN LStrip(Tail(s)) ELSE s

RECURSIVE RStrip(_)
RStrip(s) ==
    IF s = <<>> THEN s
    ELSE IF s[Len(s)] \in Whitespace THEN RStrip(SubSeq(s, 1, Len(s) - 1)) ELSE s

\* str.strip(): leading and trailing whitespace removed
Strip(s) == RStrip(LStrip(s))

\* variant: `not prompt`, the prompt is not stripped
IsBlankUnstripped(p) == p = <<>>

\* `not prompt.strip()`: the empty text is falsy
IsBlank(p) == Strip(p) = <<>>

\* ------------------------------------------------- candidate references
\* A candidate is the value handed to os.path.exists: the `image` value of
\* a mapping, or a text value.  text = FALSE is a value that is not a path
\* (None, a list, ...), on which os.path.exists raises TypeError.
\* scheme is the start of the text, exists/fileOK the state of the local
\* file of that name, fetch the outcome of an HTTP GET of the text:
\* "fail" (the request raises), "bad" (bytes that are no image), "good".
Schemes == {"http://", "https://", ""}
FetchOutcomes == {"fail", "bad", "good"}

NonText == [text |-> FALSE, scheme |-> "", exists |-> FALSE,
            fileOK |-> FALSE, fetch |-> "fail"]

\* variant: only the http:// prefix is recognised
StartsWithHttpOnly(c) == c.scheme = "http://"

\* s.startswith(('http://', 'https://'))
StartsWithHttp(c) == c.scheme \in {"http://", "https://"}

\* attributes the code never reads are held at one value
TextCands ==
    {c \in [text : {TRUE}, scheme : Schemes, exists : BOOLEAN,
            fileOK : BOOLEAN, fetch : FetchOutcomes] :
        /\ (~c.exists => ~c.fileOK)
        /\ ((c.exists \/ c.scheme = "") => c.fetch = "fail")}

Cands == TextCands \cup {NonText}

\* ---------------------------------------------------------- remote results
\* An entry of a list result: a mapping (with or without an `image` key),
\* a text, a decoded image (has a `save` attribute), or anything else.
DictEntries ==
    {[kind |-> "dict", hasImage |-> TRUE, cand |-> c] : c \in Cands}
    \cup {[kind |-> "dict", hasImage |-> FALSE, cand |-> NonText]}
StrEntries == {[kind |-> "str", hasImage |-> FALSE, cand |-> c] : c \in TextCands}
PilEntry == [kind |-> "pil", hasImage |-> FALSE, cand |-> NonText]
OtherEntry == [kind |-> "other", hasImage |-> FALSE, cand |-> NonText]
Entries == DictEntries \cup StrEntries \cup {PilEntry, OtherEntry}

Lists == SeqsUpTo(Entries, MaxLen)

Results ==
    {[kind |-> "list", hasImage |-> FALSE, cand |-> NonText, items |-> l] : l \in Lists}
    \cup {[kind |-> e.kind, hasImage |-> e.hasImage, cand |-> e.cand, items |-> <<>>] :
            e \in Entries}

NoResult == [kind |-> "unset", hasImage |-> FALSE, cand |-> NonText, items |-> <<>>]

\* ------------------------------------------------------------ return values
None == [img |-> FALSE, via |-> "none", at |-> 0]
\* the image decoded from the file (via "file") or from the fetched bytes
\* (via "get") of the candidate of entry at, or the decoded image that
\* entry at already is (via "pil"); at = 0 is the top-level result
Img(via, at) == [img |-> TRUE, via |-> via, at |-> at]

\* ------------------------------------------------------------- I/O calls
IOEvent(op, res) == [op |-> op, res |-> res]

OsPathExists(c) ==
    IF ~c.text THEN "raise" ELSE IF c.exists THEN "true" ELSE "false"

ImageOpenFile(c) == IF c.fileOK THEN "ok" ELSE "raise"

RequestsGet(c) == IF c.fetch = "fail" THEN "raise" ELSE "ok"

ImageOpenBytes(c) == IF c.fetch = "good" THEN "ok" ELSE "raise"

\* outcome of a piece of code: out is "return", "raise" or "none" (fell
\* through), val the value returned, calls the I/O it made
Outcome(out, val, calls) == [out |-> out, val |-> val, calls |-> calls]

\* if os.path.exists(p): return Image.open(p)
IfExistsOpen(c, at) ==
    LET e == OsPathExists(c) IN
    IF e = "raise" THEN Outcome("raise", None, <<IOEvent("exists", e)>>)
    ELSE IF e = "false" THEN Outcome("none", None, <<IOEvent("exists", e)>>)
    ELSE LET o == ImageOpenFile(c) IN
         IF o = "ok"
         THEN Outcome("return", Img("file", at), <<IOEvent("exists", e), IOEvent("open", o)>>)
         ELSE Outcome("raise", None, <<IOEvent("exists", e), IOEvent("open", o)>>)

\* variant: a failed request is sent a second time
GetAndOpenRetry(c, at) ==
    LET g == RequestsGet(c) IN
    IF g = "raise"
    THEN Outcome("raise", None, <<IOEvent("get", g), IOEvent("get", g)>>)
    ELSE LET d == ImageOpenBytes(c) IN
         IF d = "ok"
         THEN Outcome("return", Img("get", at), <<IOEvent("get", g), IOEvent("decode", d)>>)
         ELSE Outcome("raise", None, <<IOEvent("get", g), IOEvent("decode", d)>>)

\* response = requests.get(u); return Image.open(io.BytesIO(response.content))
GetAndOpen(c, at) ==
    LET g == RequestsGet(c) IN
    IF g = "raise" THEN Outcome("raise", None, <<IOEvent("get", g)>>)
    ELSE LET d == ImageOpenBytes(c) IN
         IF d = "ok"
         THEN Outcome("return", Img("get", at), <<IOEvent("get", g), IOEvent("decode", d)>>)
         ELSE Outcome("raise", None, <<IOEvent("get", g), IOEvent("decode", d)>>)

\* variant: the address test comes before the existence check
UrlBeforePath(c, at) ==
    IF c.text /\ c.scheme # "" THEN GetAndOpen(c, at) ELSE IfExistsOpen(c, at)

\* if os.path.exists(s): return Image.open(s)
\* elif s.startswith(('http://', 'https://')): fetch and decode
PathOrUrl(c, at) ==
    LET p == IfExistsOpen(c, at) IN
    IF p.out # "none" THEN p
    ELSE IF StartsWithHttp(c)
         THEN LET g == GetAndOpen(c, at) IN Outcome(g.out, g.val, p.calls \o g.calls)
         ELSE p

\* variant: the scan has no branch for mappings
ScanItemNoMapping(item, at) ==
    IF item.kind = "str" THEN PathOrUrl(item.cand, at)
    ELSE IF item.kind = "pil" THEN Outcome("return", Img("pil", at), <<>>)
    ELSE Outcome("none", None, <<>>)

\* body of the scan loop for one entry (lines 35-49)
ScanItem(item, at) ==
    IF item.kind = "dict" /\ item.hasImage THEN IfExistsOpen(item.cand, at)
    ELSE IF item.kind = "str" THEN PathOrUrl(item.cand, at)
    ELSE IF item.kind = "pil" THEN Outcome("return", Img("pil", at), <<>>)
    ELSE Outcome("none", None, <<>>)

\* variant: the retry reads item['image'] without testing for the key
FallbackItemNoKeyCheck(item, c) ==
    IF item.kind = "dict"
    THEN IF item.hasImage THEN IfExistsOpen(c, 1) ELSE Outcome("raise", None, <<>>)
    ELSE IF item.kind = "str" THEN IfExistsOpen(c, 1)
    ELSE Outcome("none", None, <<>>)

\* variant: the retry resolves a text as the scan does, address included
FallbackItemFetches(item, c) ==
    IF item.kind = "dict" /\ item.hasImage THEN IfExistsOpen(c, 1)
    ELSE IF item.kind = "str" THEN PathOrUrl(c, 1)
    ELSE Outcome("none", None, <<>>)

\* the retry of the first entry after the loop (lines 56-62); c is the
\* candidate of the first entry as the filesystem presents it now
FallbackItem(item, c) ==
    IF item.kind = "dict" /\ item.hasImage THEN IfExistsOpen(c, 1)
    ELSE IF item.kind = "str" THEN IfExistsOpen(c, 1)
    ELSE Outcome("none", None, <<>>)

\* variant: the `image` value of a mapping is resolved as a text is
TopLevelMappingFetched(r) ==
    IF r.kind = "dict" /\ r.hasImage
    THEN IF r.cand.text THEN PathOrUrl(r.cand, 0) ELSE IfExistsOpen(r.cand, 0)
    ELSE IF r.kind = "str" THEN PathOrUrl(r.cand, 0)
    ELSE IF r.kind = "pil" THEN Outcome("return", Img("pil", 0), <<>>)
    ELSE Outcome("none", None, <<>>)

\* the probes of a result that is no list (lines 64-80)
TopLevel(r) ==
    IF r.kind = "dict" /\ r.hasImage THEN IfExistsOpen(r.cand, 0)
    ELSE IF r.kind = "str" THEN PathOrUrl(r.cand, 0)
    ELSE IF r.kind = "pil" THEN Outcome("return", Img("pil", 0), <<>>)
    ELSE Outcome("none", None, <<>>)

\* variant: the retry of the first entry stands after the try block
HandlerFallbackOutside(site) ==
    IF site = "scan" THEN "inner"
    ELSE IF site \in {"client", "predict", "top"} THEN "outer"
    ELSE "caller"

\* variant: the loop body has no try/except of its own
HandlerNoInner(site) ==
    IF site \in {"scan", "client", "predict", "fallback", "top"} THEN "outer"
    ELSE "caller"

\* the handler that catches an exception raised at a place of the code:
\* the per-entry except (line 50), the function's except (line 86), or
\* none, and the exception reaches the caller
Handler(site) ==
    IF site = "scan" THEN "inner"
    ELSE IF site \in {"client", "predict", "fallback", "top"} THEN "outer"
    ELSE "caller"

\* ------------------------------------------------------------------ state
VARIABLES
    pc,          \* "start", "client", "predict", "scan", "top", "done"
    prompt,      \* the prompt argument
    result,      \* what client.predict returned
    i,           \* index of the entry the scan is at (1-based)
    ret,         \* the value returned
    escaped,     \* an exception reached the caller
    clients,     \* number of Client(...) constructions
    predicts,    \* number of client.predict calls
    io,          \* the I/O calls made, in order: [op, res, at, ph]
    innerCaught, \* indices whose processing raised into the per-entry except
    outerCaught  \* the function's except ran

vars == <<pc, prompt, result, i, ret, escaped, clients, predicts, io,
          innerCaught, outerCaught>>

Stamp(calls, at, ph) ==
    [k \in 1..Len(calls) |->
        [op |-> calls[k].op, res |-> calls[k].res, at |-> at, ph |-> ph]]

Init ==
    /\ pc = "start"
    /\ prompt \in Prompts
    /\ result = NoResult
    /\ i = 0
    /\ ret = None
    /\ escaped = FALSE
    /\ clients = 0
    /\ predicts = 0
    /\ io = <<>>
    /\ innerCaught = {}
    /\ outerCaught = FALSE

\* an exception raised at site, outside the scan loop
Raise(site) ==
    /\ pc' = "done"
    /\ ret' = None
    /\ outerCaught' = (Handler(site) = "outer")
    /\ escaped' = (Handler(site) = "caller")

Return(v) ==
    /\ pc' = "done"
    /\ ret' = v
    /\ UNCHANGED <<outerCaught, escaped>>

\* lines 13-14
CheckPrompt ==
    /\ pc = "start"
    /\ IF IsBlank(prompt) THEN Return(None)
       ELSE pc' = "client" /\ UNCHANGED <<ret, outerCaught, escaped>>
    /\ UNCHANGED <<prompt, result, i, clients, predicts, io, innerCaught>>

\* line 18
NewClient ==
    /\ pc = "client"
    /\ clients' = clients + 1
    /\ \E ok \in BOOLEAN :
        IF ok THEN pc' = "predict" /\ UNCHANGED <<ret, outerCaught, escaped>>
        ELSE Raise("client")
    /\ UNCHANGED <<prompt, result, i, predicts, io, innerCaught>>

\* lines 21-32: the call, and the entry into the probe its result selects
Predict ==
    /\ pc = "predict"
    /\ predicts' = predicts + 1
    /\ \/ /\ Raise("predict")
          /\ UNCHANGED <<result, i>>
       \/ \E r \in Results :
            /\ result' = r
            /\ IF r.kind = "list" THEN pc' = "scan" /\ i' = 1
               ELSE pc' = "top" /\ i' = 0
            /\ UNCHANGED <<ret, outerCaught, escaped>>
    /\ UNCHANGED <<prompt, clients, io, innerCaught>>

\* lines 33-52: one iteration of the loop
ScanStep ==
    /\ pc = "scan"
    /\ i <= Len(result.items)
    /\ LET o == ScanItem(result.items[i], i) IN
        /\ io' = io \o Stamp(o.calls, i, "scan")
        /\ IF o.out = "return"
           THEN Return(o.val) /\ UNCHANGED <<i, innerCaught>>
           ELSE IF o.out = "raise"
           THEN IF Handler("scan") = "inner"
                THEN /\ innerCaught' = innerCaught \cup {i}
                     /\ i' = i + 1
                     /\ UNCHANGED <<pc, ret, outerCaught, escaped>>
                ELSE Raise("scan") /\ UNCHANGED <<i, innerCaught>>
           ELSE /\ i' = i + 1
                /\ UNCHANGED <<pc, ret, outerCaught, escaped, innerCaught>>
    /\ UNCHANGED <<prompt, result, clients, predicts>>

\* lines 54-62, then 83-84: the loop is over without a return.  The retry
\* calls os.path.exists and Image.open anew, so what they answer for a text
\* is drawn again (ex, ok); a value that is no path raises as before.
Fallback ==
    /\ pc = "scan"
    /\ i > Len(result.items)
    /\ IF Len(result.items) > 0
       THEN \E ex \in BOOLEAN, ok \in BOOLEAN :
              LET first == result.items[1]
                  now == IF first.cand.text
                         THEN [first.cand EXCEPT !.exists = ex, !.fileOK = ex /\ ok]
                         ELSE first.cand
                  o == FallbackItem(first, now)
              IN  /\ io' = io \o Stamp(o.calls, 1, "fallback")
                  /\ IF o.out = "return" THEN Return(o.val)
                     ELSE IF o.out = "raise" THEN Raise("fallback")
                     ELSE Return(None)
       ELSE Return(None) /\ io' = io
    /\ UNCHANGED <<prompt, result, i, clients, predicts, innerCaught>>

\* lines 64-84: a result that is no list
Probe ==
    /\ pc = "top"
    /\ LET o == TopLevel(result) IN
        /\ io' = io \o Stamp(o.calls, 0, "top")
        /\ IF o.out = "return" THEN Return(o.val)
           ELSE IF o.out = "raise" THEN Raise("top")
           ELSE Return(None)
    /\ UNCHANGED <<prompt, result, i, clients, predicts, innerCaught>>

Next ==
    \/ CheckPrompt
    \/ NewClient
    \/ Predict
    \/ ScanStep
    \/ Fallback
    \/ Probe

Spec == Init /\ [][Next]_vars

TypeOK ==
    /\ pc \in {"start", "client", "predict", "scan", "top", "done"}
    /\ prompt \in Prompts
    /\ result \in Results \cup {NoResult}
    /\ i \in 0..(MaxLen + 1)
    /\ ret.img \in BOOLEAN
    /\ escaped \in BOOLEAN
    /\ outerCaught \in BOOLEAN
    /\ innerCaught \subseteq 1..MaxLen
\* ------------------------------------------------------------- properties
\* Vocabulary of the properties, stated on the values themselves and not
\* through the operators of the model above.
Done == pc = "done"

AllWhitespace(p) == \A k \in 1..Len(p) : p[k] = "sp" \/ p[k] = "nl"

HttpText(c) == c.text /\ (c.scheme = "http://" \/ c.scheme = "https://")

ExistingFile(c) == c.text /\ c.exists

Mapping(e) == e.kind = "dict" /\ e.hasImage

\* an entry (or top-level result) from which the scan obtains an image
Resolves(e) ==
    \/ e.kind = "pil"
    \/ Mapping(e) /\ ExistingFile(e.cand) /\ e.cand.fileOK
    \/ e.kind = "str" /\ ExistingFile(e.cand) /\ e.cand.fileOK
    \/ e.kind = "str" /\ ~e.cand.exists /\ HttpText(e.cand) /\ e.cand.fetch = "good"

\* the image such an entry yields when it stands at position at
ImageOf(e, at) ==
    IF e.kind = "pil" THEN [img |-> TRUE, via |-> "pil", at |-> at]
    ELSE IF e.cand.exists THEN [img |-> TRUE, via |-> "file", at |-> at]
    ELSE [img |-> TRUE, via |-> "get", at |-> at]

\* an entry whose processing raises
Fails(e) ==
    \/ Mapping(e) /\ ~e.cand.text
    \/ (Mapping(e) \/ e.kind = "str") /\ ExistingFile(e.cand) /\ ~e.cand.fileOK
    \/ e.kind = "str" /\ ~e.cand.exists /\ HttpText(e.cand) /\ e.cand.fetch # "good"

NoValue == [img |-> FALSE, via |-> "none", at |-> 0]

IsList == result.kind = "list"
Items == result.items
ScanEnded == IsList /\ i > Len(Items)        \* the loop ran to its end
FallbackRan == Done /\ ScanEnded /\ Len(Items) > 0

Events(op, ph) == {k \in 1..Len(io) : io[k].op = op /\ io[k].ph = ph}
EventsAt(op, at) == {k \in 1..Len(io) : io[k].op = op /\ io[k].at = at}
AllEvents(op) == {k \in 1..Len(io) : io[k].op = op}

\* C1: generate_image never raises to its caller: whatever the prompt, the
\* remote result and the outcomes of the client, the predict call, the
\* existence checks, the decodes and the fetches, no exception reaches the
\* caller and the call ends with an image or with None.
C1_NeverRaises ==
    /\ ~escaped
    /\ Done => \/ ret = NoValue
               \/ /\ ret.img
                  /\ ret.via \in {"file", "get", "pil"}
                  /\ ret.at \in 0..Len(Items)

\* C1 witness: an exception raised by the retry of the first entry, outside
\* the per-entry handler, ended the call with None.
C1_Witness ==
    /\ Done /\ outerCaught /\ ret = NoValue
    /\ \E k \in 1..Len(io) : io[k].ph = "fallback" /\ io[k].res = "raise"

\* C2 (as claimed): a list holding a mapping whose `image` value is an
\* existing, decodable local file returns the decoded contents of such a
\* file, whatever the other entries are and wherever the mapping stands.
C2_Original ==
    (Done /\ IsList /\ \E k \in 1..Len(Items) :
            Mapping(Items[k]) /\ ExistingFile(Items[k].cand) /\ Items[k].cand.fileOK)
    => \E k \in 1..Len(Items) :
            /\ Mapping(Items[k]) /\ ExistingFile(Items[k].cand)
            /\ ret = [img |-> TRUE, via |-> "file", at |-> k]

\* C2 (amended): a list holding at position k a mapping whose `image` value
\* is an existing, decodable local file returns the decoded contents of that
\* file provided no entry before k resolves to an image; in every case the
\* call returns an image, that of the first resolving entry.
C2_Amended ==
    (Done /\ IsList) =>
        \A k \in 1..Len(Items) :
            (Mapping(Items[k]) /\ ExistingFile(Items[k].cand) /\ Items[k].cand.fileOK)
            => /\ ret.img
               /\ ret.at <= k
               /\ (\A j \in 1..(k - 1) : ~Resolves(Items[j]))
                    => ret = [img |-> TRUE, via |-> "file", at |-> k]

\* C2 witness: the mapping stands second, behind an entry that failed, and
\* its file is returned.
C2_Witness ==
    /\ Done /\ IsList /\ Len(Items) >= 2
    /\ Mapping(Items[2]) /\ ExistingFile(Items[2].cand)
    /\ ~Resolves(Items[1])
    /\ ret = [img |-> TRUE, via |-> "file", at |-> 2]

\* C3 (as claimed): a bare text result beginning with http:// or https://
\* is fetched over the network; the decoded fetched bytes are returned, and
\* None when the fetch fails.
C3_Original ==
    (Done /\ result.kind = "str" /\ HttpText(result.cand)) =>
        /\ Cardinality(AllEvents("get")) = 1
        /\ result.cand.fetch = "good" => ret = [img |-> TRUE, via |-> "get", at |-> 0]
        /\ result.cand.fetch = "fail" => ret = NoValue

\* C3 (amended): a bare text result beginning with http:// or https:// that
\* is not the path of an existing local file is fetched exactly once; the
\* decoded fetched bytes are returned when the fetch succeeds and the bytes
\* decode, and None when the fetch fails or the bytes are no image.  When
\* the text is also an existing local path no fetch is made and the file is
\* decoded instead.
C3_Amended ==
    (Done /\ result.kind = "str" /\ HttpText(result.cand)) =>
        IF result.cand.exists
        THEN /\ AllEvents("get") = {}
             /\ ret = IF result.cand.fileOK
                      THEN [img |-> TRUE, via |-> "file", at |-> 0] ELSE NoValue
        ELSE /\ Cardinality(AllEvents("get")) = 1
             /\ ret = IF result.cand.fetch = "good"
                      THEN [img |-> TRUE, via |-> "get", at |-> 0] ELSE NoValue

\* C3 witness: an https address that is no local file was fetched and its
\* bytes returned as the image.
C3_Witness ==
    /\ Done /\ result.kind = "str" /\ result.cand.scheme = "https://"
    /\ AllEvents("get") # {}
    /\ ret = [img |-> TRUE, via |-> "get", at |-> 0]
\* C4 (as claimed): candidate resolution is the same wherever the candidate
\* arises; in particular a mapping whose `image` value is an http(s)
\* address with a successful fetch of valid image bytes yields that image.
C4_Original ==
    /\ (Done /\ Mapping(result) /\ HttpText(result.cand) /\ result.cand.fetch = "good")
        => ret = [img |-> TRUE, via |-> "get", at |-> 0]
    /\ (Done /\ IsList /\ Len(Items) > 0 /\ Mapping(Items[1])
          /\ HttpText(Items[1].cand) /\ Items[1].cand.fetch = "good")
        => ret = [img |-> TRUE, via |-> "get", at |-> 1]

\* C4 (amended): decoding an existing local path is the same for the three
\* places a candidate arises (the `image` value of a mapping in a list, the
\* `image` value of a top-level mapping, a text value), but only a text
\* value is fetched when it begins with http:// or https://.  The `image`
\* value of a mapping is never fetched: a mapping whose `image` value is an
\* http(s) address that is no existing local path yields no image.
C4_Amended ==
    /\ \A k \in 1..Len(io) :
          io[k].op \in {"get", "decode"} =>
              IF io[k].at = 0 THEN result.kind = "str"
              ELSE Items[io[k].at].kind = "str"
    /\ (Done /\ ~IsList /\ (Mapping(result) \/ result.kind = "str")) =>
          /\ (ExistingFile(result.cand) /\ result.cand.fileOK)
                => ret = [img |-> TRUE, via |-> "file", at |-> 0]
          /\ (result.kind = "str" /\ ~result.cand.exists /\ HttpText(result.cand)
                /\ result.cand.fetch = "good")
                => ret = [img |-> TRUE, via |-> "get", at |-> 0]
          /\ (Mapping(result) /\ ~ExistingFile(result.cand)) => ret = NoValue
    /\ (Done /\ IsList /\ Len(Items) > 0 /\ (Mapping(Items[1]) \/ Items[1].kind = "str")) =>
          /\ (ExistingFile(Items[1].cand) /\ Items[1].cand.fileOK)
                => ret = [img |-> TRUE, via |-> "file", at |-> 1]
          /\ (Items[1].kind = "str" /\ ~Items[1].cand.exists /\ HttpText(Items[1].cand)
                /\ Items[1].cand.fetch = "good")
                => ret = [img |-> TRUE, via |-> "get", at |-> 1]
          /\ (Mapping(Items[1]) /\ HttpText(Items[1].cand) /\ ~Items[1].cand.exists)
                => ret # [img |-> TRUE, via |-> "get", at |-> 1]

\* C4 witness: a top-level mapping whose `image` value is a fetchable
\* http(s) address that is no local file was probed and gave None.
C4_Witness ==
    /\ Done /\ Mapping(result) /\ HttpText(result.cand)
    /\ result.cand.fetch = "good"
    /\ EventsAt("exists", 0) # {}
    /\ ret = NoValue

\* C5: with an empty or whitespace-only prompt the call returns None and
\* neither constructs the client nor calls the remote service, and makes
\* no filesystem check and no network fetch.
C5_BlankPromptShortCircuits ==
    (AllWhitespace(prompt) /\ pc # "start") =>
        /\ Done /\ ret = NoValue /\ ~escaped /\ ~outerCaught
        /\ clients = 0 /\ predicts = 0
        /\ io = <<>>
        /\ result.kind = "unset"

\* C5 witness: a prompt of whitespace only has returned.
C5_Witness ==
    /\ Done /\ prompt # <<>> /\ AllWhitespace(prompt)
    /\ ret = NoValue /\ clients = 0

\* a value no probe matches
Unmatched(e) == e.kind = "other" \/ (e.kind = "dict" /\ ~e.hasImage)

\* C6: a result whose shape matches no probe (a number, an empty list, a
\* list of mappings without an `image` key or of other unrecognised
\* values, a mapping without an `image` key) gives None: nothing is
\* raised, inside the call or out of it, and no I/O is made.
C6_NoProbeMatchesGivesNone ==
    (Done /\ predicts = 1
        /\ \/ ~IsList /\ Unmatched(result)
           \/ IsList /\ \A k \in 1..Len(Items) : Unmatched(Items[k]))
    => /\ ret = NoValue
       /\ ~escaped /\ ~outerCaught /\ innerCaught = {}
       /\ io = <<>>

\* C6 witness: a non-empty list of mappings without an `image` key was
\* scanned to its end and the call returned.
C6_Witness ==
    /\ FallbackRan /\ Items[1].kind = "dict" /\ ~Items[1].hasImage
    /\ \A k \in 1..Len(Items) : Unmatched(Items[k])
    /\ ret = NoValue

\* C7: a failure while processing one entry of a list does not end the
\* scan: the scan moves past every entry that raised, and when a later
\* entry resolves to an image and none before it does, that image is
\* returned.
C7_ScanSurvivesEntryFailure ==
    /\ \A j \in innerCaught : i > j /\ Fails(Items[j])
    /\ (Done /\ IsList) =>
          \A k \in 1..Len(Items) :
              (/\ Resolves(Items[k])
               /\ \A j \in 1..(k - 1) : ~Resolves(Items[j])
               /\ \E j \in 1..(k - 1) : Fails(Items[j]))
              => /\ ret = ImageOf(Items[k], k)
                 /\ \A j \in 1..(k - 1) : Fails(Items[j]) => j \in innerCaught

\* C7 witness: the first entry raised and the image of the second was
\* returned.
C7_Witness ==
    /\ Done /\ IsList /\ Len(Items) >= 2
    /\ 1 \in innerCaught
    /\ ret.img /\ ret.at = 2

\* C8 (as claimed): the retry of the first entry resolves its candidate as
\* the scan does, as a local path or as an http(s) address: a first entry
\* that is an http(s) text and no local file is fetched by the retry.
C8_Original ==
    (FallbackRan /\ Items[1].kind = "str" /\ HttpText(Items[1].cand)
        /\ \E k \in Events("exists", "fallback") : io[k].res = "false")
    => Events("get", "fallback") # {}

\* C8 (amended): when the scan of a non-empty list produced no image, the
\* first entry is retried with the scan's extraction of the candidate (the
\* `image` value of a mapping, or the text itself), resolved as a local path
\* only: the retry checks the path once and decodes the file if it exists;
\* it fetches nothing, and the decoded-image check is left out as well.
C8_Amended ==
    /\ Events("get", "fallback") = {} /\ Events("decode", "fallback") = {}
    /\ \A k \in 1..Len(io) : io[k].ph = "fallback" => FallbackRan /\ io[k].at = 1
    /\ FallbackRan =>
          IF Mapping(Items[1]) \/ Items[1].kind = "str"
          THEN /\ Cardinality(Events("exists", "fallback")) = 1
               /\ ret.img <=> /\ \E k \in Events("exists", "fallback") : io[k].res = "true"
                              /\ \E k \in Events("open", "fallback") : io[k].res = "ok"
               /\ ret.img => ret = [img |-> TRUE, via |-> "file", at |-> 1]
          ELSE /\ \A k \in 1..Len(io) : io[k].ph # "fallback"
               /\ ret = NoValue

\* C8 witness: the scan found nothing, and the retry of the first entry,
\* an http(s) text, found its file and returned it.
C8_Witness ==
    /\ FallbackRan /\ Items[1].kind = "str" /\ HttpText(Items[1].cand)
    /\ EventsAt("get", 1) # {}
    /\ ret = [img |-> TRUE, via |-> "file", at |-> 1]

\* C9: a call makes a single attempt: the client is built and predict is
\* called at most once, each entry's address is fetched at most once, the
\* retry of the first entry fetches nothing, and the fetches number at most
\* the entries of a list result and at most one for any other result.
C9_SingleAttempt ==
    /\ clients <= 1 /\ predicts <= 1
    /\ predicts <= clients
    /\ \A at \in 0..Len(Items) : Cardinality(EventsAt("get", at)) <= 1
    /\ Events("get", "fallback") = {}
    /\ Cardinality(AllEvents("get")) <= (IF IsList THEN Len(Items) ELSE 1)
    /\ (outerCaught /\ result.kind = "unset") => Done /\ io = <<>>

\* C9 witness: every entry of a two-entry list was fetched once, each fetch
\* failed, and the call ended after the retry of the first entry.
C9_Witness ==
    /\ FallbackRan /\ Len(Items) = 2
    /\ Cardinality(AllEvents("get")) = 2
    /\ \A k \in AllEvents("get") : io[k].res = "raise"
    /\ ret = NoValue

\* C10: the scan of a list is ordered and stops at the first success: the
\* image returned is that of the lowest-index entry that resolves, no entry
\* after it is examined (no I/O is made for it), and for a text an
\* existing local path is decoded without fetching it as an address.
C10_FirstSuccessWins ==
    /\ (Done /\ IsList) =>
          \A k \in 1..Len(Items) :
              (Resolves(Items[k]) /\ \A j \in 1..(k - 1) : ~Resolves(Items[j]))
              => /\ ret = ImageOf(Items[k], k)
                 /\ i = k
                 /\ \A n \in 1..Len(io) : io[n].at <= k /\ io[n].ph = "scan"
    /\ \A n \in 1..Len(io) :
          /\ n > 1 => io[n - 1].at <= io[n].at \/ io[n].ph = "fallback"
          /\ (io[n].op = "get" /\ io[n].at > 0) => ~Items[io[n].at].cand.exists
          /\ (io[n].op = "get" /\ io[n].at = 0) => ~result.cand.exists

\* C10 witness: both entries of a list resolve, the first a text that is an
\* http(s) address and an existing file; its file was returned and nothing
\* was done for the second.
C10_Witness ==
    /\ Done /\ IsList /\ Len(Items) = 2
    /\ Items[1].kind = "str" /\ HttpText(Items[1].cand) /\ ExistingFile(Items[1].cand)
    /\ Resolves(Items[2]) /\ Items[2].kind = "str"
    /\ ret = [img |-> TRUE, via |-> "file", at |-> 1]
    /\ EventsAt("exists", 2) = {}
====
